---- MODULE Spec2Model ----
(***************************************************************************)
(* Model of src/run.py: the batch pipeline that loads a YAML config and a *)
(* CSV of prices, computes a rolling mean of close, derives a 0/1 signal, *)
(* and writes a metrics record (or an error record) to the output path.   *)
(*                                                                         *)
(* Abstractions:                                                           *)
(*  - close is a numeric column without gaps, of small integers; a rolling *)
(*    mean is kept as the exact rational sum/n, so `close > mean` is       *)
(*    close * n > sum (no floating-point rounding);                        *)
(*  - a config document is null or a mapping;                              *)
(*  - signal_rate is kept in units of 1/Scale (0.4 is 4000);               *)
(*  - exceptions are named by their Python class; messages are tokens;     *)
(*  - a write to a file or to stdout either happens completely or raises   *)
(*    before changing anything (open() failing).                           *)
(***************************************************************************)
EXTENDS Integers, Sequences, FiniteSets, TLC

\* ---------------------------------------------------------------- bounds
MaxRows == 3
MaxClose == 3
MaxWindow == 3
MaxLatency == 1

\* round(x, 4): four decimal places
Scale == 10000

VARIABLES
    pc,          \* position of main()
    configFile,  \* what --config names (environment, fixed during the run)
    inputFile,   \* what --input names (environment, fixed during the run)
    config,      \* main's local `config`
    version,     \* main's local `version`
    df,          \* main's local `df`
    metrics,     \* main's local `metrics`
    output,      \* content of the --output path
    writes,      \* number of completed writes to the --output path
    log,         \* entries of the --log-file
    stdout,      \* records echoed to standard output
    exc,         \* the exception raised inside the try block, if any
    errmsg,      \* the message the matching except clause passes on
    caught,      \* number of except clauses entered
    failedAt,    \* the step that raised
    uncaught,    \* class of an exception that escaped main()
    exitCode,    \* process exit status once pc = "done"
    ran          \* pipeline stages started so far, in order

vars == <<pc, configFile, inputFile, config, version, df, metrics, output,
          writes, log, stdout, exc, errmsg, caught, failedAt, uncaught,
          exitCode, ran>>

\* ------------------------------------------------------------ environment
RequiredKeys == <<"seed", "window", "version">>

Versions == {"v1", "v2"}

Seeds == {-1, 42}

Windows == -1 .. MaxWindow

Scenario == <<10, 20, 30, 25, 40>>

RECURSIVE SeqsUpTo(_, _)
SeqsUpTo(S, n) ==
    IF n = 0 THEN {<<>>}
    ELSE LET shorter == SeqsUpTo(S, n - 1)
         IN  shorter \cup {Append(s, x) : s \in {t \in shorter : Len(t) = n - 1}, x \in S}

RowSeqs == SeqsUpTo(1 .. MaxClose, MaxRows) \cup {Scenario}

\* A config document that parsed to a mapping: the keys it has and their values.
ConfigDocs ==
    {[state |-> "doc", keys |-> ks, seed |-> s, window |-> w, version |-> v] :
        ks \in {{"seed", "window", "version"}}, s \in Seeds, w \in Windows, v \in Versions}
    \cup
    {[state |-> "doc", keys |-> ks, seed |-> 42, window |-> 1, version |-> v] :
        ks \in (SUBSET {"seed", "window", "version"}) \ {{"seed", "window", "version"}},
        v \in Versions}

ConfigFiles ==
    {[state |-> st, keys |-> {}, seed |-> 42, window |-> 1, version |-> "v1"] :
        st \in {"absent", "unparsable", "null"}}
    \cup ConfigDocs

\* state: absent (no such file), blank (zero bytes), unparsable (malformed rows),
\* ok (a header and `rows` data rows; hasClose: the header names a close column,
\* and then rows are its values).
InputFiles ==
    {[state |-> st, hasClose |-> FALSE, rows |-> <<>>] :
        st \in {"absent", "blank", "unparsable"}}
    \cup
    {[state |-> "ok", hasClose |-> h, rows |-> r] : h \in BOOLEAN, r \in RowSeqs}

\* ------------------------------------------------------------------ values
NoConfig == [loaded |-> FALSE]

NoDf == [close |-> <<>>, rolling_mean |-> <<>>, signal |-> <<>>]

NoMetrics == [status |-> "none"]

NoFile == [status |-> "absent"]

NoExc == [type |-> "none", msg |-> ""]

NaN == [nan |-> TRUE, sum |-> 0, n |-> 0]

Mean(s, k) == [nan |-> FALSE, sum |-> s, n |-> k]

Raise(t, m) == [type |-> t, msg |-> m]

Info(m) == [level |-> "INFO", category |-> "", msg |-> m]

Error(c, m) == [level |-> "ERROR", category |-> c, msg |-> m]

\* ------------------------------------------------------- exception classes
\* Python's class hierarchy for the exception classes that occur.
Base(t) ==
    CASE t = "FileNotFoundError" -> "OSError"
      [] t = "PermissionError" -> "OSError"
      [] t = "BrokenPipeError" -> "OSError"
      [] t = "EmptyDataError" -> "ValueError"
      [] OTHER -> "Exception"

RECURSIVE IsInstance(_, _)
IsInstance(t, cls) ==
    IF t = cls THEN TRUE
    ELSE IF t = "Exception" THEN FALSE
    ELSE IsInstance(Base(t), cls)

Raised(e) == [raised |-> TRUE, exc |-> e]

Returned(v) == [raised |-> FALSE, value |-> v]

\* ----------------------------------------------------------- load_config
load_config(f) ==
    IF f.state = "absent"
    THEN Raised(Raise("FileNotFoundError", "Configuration file not found"))
    ELSE IF f.state = "unparsable"
    THEN Raised(Raise("YAMLError", "could not parse the document"))
    ELSE IF f.state = "null"
    THEN Raised(Raise("ValueError", "Configuration file is empty or invalid"))
    ELSE LET missing == SelectSeq(RequiredKeys, LAMBDA k : k \notin f.keys)
         IN  IF missing # <<>>
             THEN Raised(Raise("KeyError", "Missing required configuration keys"))
             ELSE Returned([loaded |-> TRUE, seed |-> f.seed, window |-> f.window,
                            version |-> f.version])

\* ------------------------------------------------------------- load_data
\* load_data with the column check ahead of the emptiness check.
load_data_ColumnFirst(f) ==
    IF f.state = "absent"
    THEN Raised(Raise("FileNotFoundError", "Input file not found"))
    ELSE IF f.state = "unparsable"
    THEN Raised(Raise("ValueError", "Invalid CSV file format"))
    ELSE IF f.state = "blank"
    THEN Raised(Raise("EmptyDataError", "No columns to parse from file"))
    ELSE IF ~f.hasClose
    THEN Raised(Raise("KeyError", "Required column 'close' not found in input data"))
    ELSE IF Len(f.rows) = 0
    THEN Raised(Raise("ValueError", "Input CSV file is empty"))
    ELSE Returned([close |-> f.rows, rolling_mean |-> <<>>, signal |-> <<>>])

\* load_data: the checks in the order written (file, parse, empty, column).
load_data(f) ==
    IF f.state = "absent"
    THEN Raised(Raise("FileNotFoundError", "Input file not found"))
    ELSE IF f.state = "unparsable"
    THEN Raised(Raise("ValueError", "Invalid CSV file format"))
    ELSE IF f.state = "blank"
    THEN Raised(Raise("EmptyDataError", "No columns to parse from file"))
    ELSE IF Len(f.rows) = 0
    THEN Raised(Raise("ValueError", "Input CSV file is empty"))
    ELSE IF ~f.hasClose
    THEN Raised(Raise("KeyError", "Required column 'close' not found in input data"))
    ELSE Returned([close |-> f.rows, rolling_mean |-> <<>>, signal |-> <<>>])

\* --------------------------------------------------- compute_rolling_mean
\* Series.rolling(window).mean() slides a fixed window: each step adds the
\* entering value and removes the leaving one; the mean is defined once the
\* window holds min_periods = window observations (and at least one).
RECURSIVE RollSum(_, _, _)
RollSum(close, window, i) ==
    IF i = 0 THEN 0
    ELSE RollSum(close, window, i - 1) + close[i]
         - (IF i > window THEN close[i - window] ELSE 0)

Nobs(window, i) == IF i < window THEN i ELSE window

RollingMeanAt(close, window, i) ==
    IF Nobs(window, i) >= window /\ Nobs(window, i) > 0
    THEN Mean(RollSum(close, window, i), Nobs(window, i))
    ELSE NaN

\* compute_rolling_mean that drops the rows whose mean is undefined.
compute_rolling_mean_DropNaN(d, window) ==
    LET defined == {i \in 1 .. Len(d.close) : ~RollingMeanAt(d.close, window, i).nan}
        first == Len(d.close) - Cardinality(defined)
    IN  [d EXCEPT !.close = SubSeq(d.close, first + 1, Len(d.close)),
                  !.rolling_mean =
                      [i \in 1 .. Cardinality(defined) |->
                          RollingMeanAt(d.close, window, first + i)]]

compute_rolling_mean(d, window) ==
    [d EXCEPT !.rolling_mean =
        [i \in 1 .. Len(d.close) |-> RollingMeanAt(d.close, window, i)]]

\* ------------------------------------------------------- generate_signals
\* The comparison with >= in place of >.
GreaterOrEqualMean(c, m) == c * m.n >= m.sum

\* close > rolling_mean, for a rolling_mean that is not NaN.
GreaterThanMean(c, m) == c * m.n > m.sum

generate_signals(d) ==
    [d EXCEPT !.signal =
        [i \in 1 .. Len(d.close) |->
            IF d.rolling_mean[i].nan THEN 0
            ELSE IF GreaterThanMean(d.close[i], d.rolling_mean[i]) THEN 1 ELSE 0]]

\* ------------------------------------------------------ calculate_metrics
RECURSIVE SumSeq(_)
SumSeq(s) == IF s = <<>> THEN 0 ELSE s[1] + SumSeq(Tail(s))

\* round(num / den, 4) in units of 1/Scale, ties to even.
Round4(num, den) ==
    LET q == (Scale * num) \div den
        r == (Scale * num) % den
    IN  IF 2 * r < den THEN q
        ELSE IF 2 * r > den THEN q + 1
        ELSE IF q % 2 = 0 THEN q ELSE q + 1

\* The mean taken over the rows with a defined rolling mean only.
SignalMeanDenominator_DefinedOnly(d) ==
    LET defined == Cardinality({i \in 1 .. Len(d.rolling_mean) : ~d.rolling_mean[i].nan})
    IN  IF defined = 0 THEN 1 ELSE defined

\* df["signal"].mean(): the sum over all rows divided by the number of rows.
SignalMeanDenominator(d) == Len(d.signal)

calculate_metrics(d, cfg, latency) ==
    [version |-> cfg.version,
     rows_processed |-> Len(d.close),
     metric |-> "signal_rate",
     value |-> Round4(SumSeq(d.signal), SignalMeanDenominator(d)),
     latency_ms |-> latency,
     seed |-> cfg.seed,
     status |-> "success"]

\* ----------------------------------------------------- write_error_output
write_error_output(error_message, ver) ==
    [version |-> ver, status |-> "error", error_message |-> error_message]

\* ------------------------------------------------------------------- main
StageOrder == <<"load_config", "load_data", "compute_rolling_mean",
                "generate_signals", "calculate_metrics", "write_output">>

Init ==
    /\ pc = "parse_arguments"
    /\ configFile \in ConfigFiles
    /\ inputFile \in InputFiles
    /\ config = NoConfig
    /\ version = ""
    /\ df = NoDf
    /\ metrics = NoMetrics
    /\ output = NoFile
    /\ writes = 0
    /\ log = <<>>
    /\ stdout = <<>>
    /\ exc = NoExc
    /\ errmsg = ""
    /\ caught = 0
    /\ failedAt = "none"
    /\ uncaught = "none"
    /\ exitCode = -1
    /\ ran = <<>>

\* A failure that is recorded while the run goes on with the next stage.
RaiseAt_Continue(step, e) ==
    /\ exc' = e
    /\ failedAt' = step
    /\ pc' = "load_data"

\* An exception raised at `step` inside the try block: control goes to the
\* except clauses.
RaiseAt(step, e) ==
    /\ exc' = e
    /\ failedAt' = step
    /\ pc' = "except"

\* The process ends with `code`; `cls` is the class of the exception that
\* escaped main, if one did.
Exit(code, cls) ==
    /\ exitCode' = code
    /\ uncaught' = cls
    /\ pc' = "done"

\* args = parse_arguments(): argparse exits with status 2 on a bad command line.
ParseArguments ==
    /\ pc = "parse_arguments"
    /\ \E ok \in BOOLEAN :
        IF ok
        THEN /\ pc' = "setup_logging"
             /\ UNCHANGED <<failedAt, uncaught, exitCode>>
        ELSE /\ failedAt' = "parse_arguments"
             /\ Exit(2, "none")
    /\ UNCHANGED <<configFile, inputFile, config, version, df, metrics, output,
                   writes, log, stdout, exc, errmsg, caught, ran>>

\* logger = setup_logging(...); logger.info("Job started"); version = "v1".
\* FileHandler opens the log file; when that raises, nothing catches it.
SetupLogging ==
    /\ pc = "setup_logging"
    /\ \E ok \in BOOLEAN :
        IF ok
        THEN /\ log' = <<Info("Job started")>>
             /\ version' = "v1"
             /\ pc' = "load_config"
             /\ UNCHANGED <<failedAt, uncaught, exitCode>>
        ELSE /\ failedAt' = "setup_logging"
             /\ Exit(1, "OSError")
             /\ UNCHANGED <<log, version>>
    /\ UNCHANGED <<configFile, inputFile, config, df, metrics, output, writes,
                   stdout, exc, errmsg, caught, ran>>

\* The version left at the fallback after load_config returned.
VersionOf_Fallback(cfg) == "v1"

\* version = config["version"], right after load_config returned.
VersionOf(cfg) == cfg.version

\* config = load_config(...); version = config["version"].
LoadConfig ==
    /\ pc = "load_config"
    /\ ran' = Append(ran, "load_config")
    /\ LET r == load_config(configFile)
       IN  IF r.raised
           THEN /\ RaiseAt("load_config", r.exc)
                /\ UNCHANGED <<config, version, log>>
           ELSE /\ config' = r.value
                /\ version' = VersionOf(r.value)
                /\ log' = Append(log, Info("Config loaded"))
                /\ pc' = "seed"
                /\ UNCHANGED <<exc, failedAt>>
    /\ UNCHANGED <<configFile, inputFile, df, metrics, output, writes, stdout,
                   errmsg, caught, uncaught, exitCode>>

\* np.random.seed(config["seed"]): a seed outside 0 .. 2^32-1 raises ValueError.
SeedRandom ==
    /\ pc = "seed"
    /\ IF config.seed < 0
       THEN RaiseAt("seed", Raise("ValueError", "Seed must be between 0 and 2**32 - 1"))
       ELSE /\ pc' = "load_data"
            /\ UNCHANGED <<exc, failedAt>>
    /\ UNCHANGED <<configFile, inputFile, config, version, df, metrics, output,
                   writes, log, stdout, errmsg, caught, uncaught, exitCode, ran>>

\* df = load_data(...).
LoadData ==
    /\ pc = "load_data"
    /\ ran' = Append(ran, "load_data")
    /\ LET r == load_data(inputFile)
       IN  IF r.raised
           THEN /\ RaiseAt("load_data", r.exc)
                /\ UNCHANGED <<df, log>>
           ELSE /\ df' = r.value
                /\ log' = Append(log, Info("Data loaded"))
                /\ pc' = "compute_rolling_mean"
                /\ UNCHANGED <<exc, failedAt>>
    /\ UNCHANGED <<configFile, inputFile, config, version, metrics, output,
                   writes, stdout, errmsg, caught, uncaught, exitCode>>

\* df = compute_rolling_mean(df, config["window"], logger): rolling() rejects
\* a negative window with ValueError.
ComputeRollingMean ==
    /\ pc = "compute_rolling_mean"
    /\ ran' = Append(ran, "compute_rolling_mean")
    /\ IF config.window < 0
       THEN /\ RaiseAt("compute_rolling_mean",
                       Raise("ValueError", "window must be an integer 0 or greater"))
            /\ UNCHANGED <<df, log>>
       ELSE /\ df' = compute_rolling_mean(df, config.window)
            /\ log' = Append(log, Info("Rolling mean calculated"))
            /\ pc' = "generate_signals"
            /\ UNCHANGED <<exc, failedAt>>
    /\ UNCHANGED <<configFile, inputFile, config, version, metrics, output,
                   writes, stdout, errmsg, caught, uncaught, exitCode>>

\* df = generate_signals(df, logger).
GenerateSignals ==
    /\ pc = "generate_signals"
    /\ ran' = Append(ran, "generate_signals")
    /\ df' = generate_signals(df)
    /\ log' = Append(log, Info("Signals generated"))
    /\ pc' = "calculate_metrics"
    /\ UNCHANGED <<configFile, inputFile, config, version, metrics, output,
                   writes, stdout, exc, errmsg, caught, failedAt, uncaught,
                   exitCode>>

\* metrics = calculate_metrics(df, config, start_time, logger); the elapsed
\* wall-clock time is whatever the clock says.
CalculateMetrics ==
    /\ pc = "calculate_metrics"
    /\ ran' = Append(ran, "calculate_metrics")
    /\ \E latency \in 0 .. MaxLatency :
        metrics' = calculate_metrics(df, config, latency)
    /\ log' = Append(log, Info("Metrics"))
    /\ pc' = "write_output"
    /\ UNCHANGED <<configFile, inputFile, config, version, df, output, writes,
                   stdout, exc, errmsg, caught, failedAt, uncaught, exitCode>>

\* write_output(metrics, args.output, logger): open() may raise (no such
\* directory, no permission).
WriteOutput ==
    /\ pc = "write_output"
    /\ ran' = Append(ran, "write_output")
    /\ \/ /\ output' = metrics
          /\ writes' = writes + 1
          /\ log' = Append(log, Info("Metrics written"))
          /\ pc' = "print"
          /\ UNCHANGED <<exc, failedAt>>
       \/ /\ \E t \in {"FileNotFoundError", "PermissionError"} :
                RaiseAt("write_output", Raise(t, "cannot open the output path"))
          /\ UNCHANGED <<output, writes, log>>
    /\ UNCHANGED <<configFile, inputFile, config, version, df, metrics, stdout,
                   errmsg, caught, uncaught, exitCode>>

\* print(json.dumps(metrics, indent=2)): writing to a closed pipe raises.
PrintMetrics ==
    /\ pc = "print"
    /\ \/ /\ stdout' = Append(stdout, metrics)
          /\ pc' = "completed"
          /\ UNCHANGED <<exc, failedAt>>
       \/ /\ RaiseAt("print", Raise("BrokenPipeError", "Broken pipe"))
          /\ UNCHANGED stdout
    /\ UNCHANGED <<configFile, inputFile, config, version, df, metrics, output,
                   writes, log, errmsg, caught, uncaught, exitCode, ran>>

\* logger.info("Job completed successfully ..."); main returns.
JobCompleted ==
    /\ pc = "completed"
    /\ log' = Append(log, Info("Job completed successfully"))
    /\ Exit(0, "none")
    /\ UNCHANGED <<configFile, inputFile, config, version, df, metrics, output,
                   writes, stdout, exc, errmsg, caught, failedAt, ran>>

\* The except clause that takes an exception of class t: the first, in the
\* order written, whose class t is an instance of.
Handlers == <<"FileNotFoundError", "KeyError", "ValueError", "Exception">>

\* The catch-all clause written first.
HandlerFor_CatchAllFirst(t) == "Exception"

HandlerFor(t) ==
    LET i == CHOOSE j \in 1 .. Len(Handlers) :
                 /\ IsInstance(t, Handlers[j])
                 /\ \A k \in 1 .. j - 1 : ~IsInstance(t, Handlers[k])
    IN  Handlers[i]

\* What every except clause does up to its logger.error call: log the
\* category with the message and keep the message for write_error_output.
LogError(category, msg) ==
    /\ caught' = caught + 1
    /\ errmsg' = msg
    /\ log' = Append(log, Error(category, msg))
    /\ pc' = "write_error_output"
    /\ UNCHANGED <<configFile, inputFile, config, version, df, metrics, output,
                   writes, stdout, exc, failedAt, uncaught, exitCode, ran>>

\* except FileNotFoundError as e.
ExceptFileNotFoundError ==
    /\ pc = "except"
    /\ HandlerFor(exc.type) = "FileNotFoundError"
    /\ LogError("File error", exc.msg)

\* except KeyError as e: str(e) is the quoted message, strip() unquotes it.
ExceptKeyError ==
    /\ pc = "except"
    /\ HandlerFor(exc.type) = "KeyError"
    /\ LogError("Key error", exc.msg)

\* except ValueError as e.
ExceptValueError ==
    /\ pc = "except"
    /\ HandlerFor(exc.type) = "ValueError"
    /\ LogError("Validation error", exc.msg)

\* except Exception as e.
ExceptException ==
    /\ pc = "except"
    /\ HandlerFor(exc.type) = "Exception"
    /\ LogError("Unexpected error", exc.msg)

\* An except clause that goes to sys.exit without writing the error record.
WriteErrorOutput_NoWrite ==
    /\ pc = "write_error_output"
    /\ pc' = "sys_exit"
    /\ UNCHANGED <<configFile, inputFile, config, version, df, metrics, output,
                   writes, log, stdout, exc, errmsg, caught, failedAt, uncaught,
                   exitCode, ran>>

\* write_error_output(args.output, msg, version) inside the except clause: an
\* exception raised here escapes main and Python exits with status 1.
WriteErrorOutput ==
    /\ pc = "write_error_output"
    /\ \/ /\ output' = write_error_output(errmsg, version)
          /\ writes' = writes + 1
          /\ pc' = "sys_exit"
          /\ UNCHANGED <<uncaught, exitCode>>
       \/ /\ Exit(1, "OSError")
          /\ UNCHANGED <<output, writes>>
    /\ UNCHANGED <<configFile, inputFile, config, version, df, metrics, log,
                   stdout, exc, errmsg, caught, failedAt, ran>>

\* An except clause that ends the process with status 0.
SysExit_Zero ==
    /\ pc = "sys_exit"
    /\ exitCode' = 0
    /\ uncaught' = "none"
    /\ pc' = "done"
    /\ UNCHANGED <<configFile, inputFile, config, version, df, metrics, output,
                   writes, log, stdout, exc, errmsg, caught, failedAt, ran>>

\* sys.exit(1).
SysExit ==
    /\ pc = "sys_exit"
    /\ Exit(1, "none")
    /\ UNCHANGED <<configFile, inputFile, config, version, df, metrics, output,
                   writes, log, stdout, exc, errmsg, caught, failedAt, ran>>

Next ==
    \/ ParseArguments
    \/ SetupLogging
    \/ LoadConfig
    \/ SeedRandom
    \/ LoadData
    \/ ComputeRollingMean
    \/ GenerateSignals
    \/ CalculateMetrics
    \/ WriteOutput
    \/ PrintMetrics
    \/ JobCompleted
    \/ ExceptFileNotFoundError
    \/ ExceptKeyError
    \/ ExceptValueError
    \/ ExceptException
    \/ WriteErrorOutput
    \/ SysExit

Spec == Init /\ [][Next]_vars

\* ------------------------------------------------------------- properties
\* sum of close[lo .. hi], by definition
RECURSIVE RangeSum(_, _, _)
RangeSum(close, lo, hi) ==
    IF lo > hi THEN 0 ELSE close[lo] + RangeSum(close, lo + 1, hi)

Ones(sig) == Cardinality({i \in 1 .. Len(sig) : sig[i] = 1})

Abs(x) == IF x < 0 THEN -x ELSE x

SuccessFields ==
    {"version", "rows_processed", "metric", "value", "latency_ms", "seed", "status"}

ErrorFields == {"version", "status", "error_message"}

ErrorEntries == SelectSeq(log, LAMBDA e : e.level = "ERROR")

PreTry == {"parse_arguments", "setup_logging"}

\* The category the spec's taxonomy gives an exception of class t.
ExpectedCategory(t) ==
    CASE t = "FileNotFoundError" -> "File error"
      [] t = "KeyError" -> "Key error"
      [] t \in {"ValueError", "EmptyDataError"} -> "Validation error"
      [] OTHER -> "Unexpected error"

\* C1: once the signals are generated with a window >= 1, row i (1-based
\* here, so i >= window is the spec's i >= window-1) has signal 1 exactly when
\* it has a full window behind it and its close is strictly above the mean of
\* the last `window` closes; every other row has signal 0.
C1_SignalIffAboveWindowMean ==
    (Len(df.signal) > 0 /\ config.window >= 1) =>
        /\ Len(df.signal) = Len(inputFile.rows)
        /\ \A i \in 1 .. Len(inputFile.rows) :
            LET w == config.window
                above == /\ i >= w
                         /\ inputFile.rows[i] * w > RangeSum(inputFile.rows, i - w + 1, i)
            IN  df.signal[i] = IF above THEN 1 ELSE 0

\* C1 witness: the scenario's closes with window 3, a tie at the fourth row.
C1_Witness ==
    /\ pc = "calculate_metrics"
    /\ inputFile.rows = Scenario
    /\ config.window = 3
    /\ df.signal = <<0, 0, 1, 0, 1>>

\* C2 as stated: every terminated run has written the output path exactly once.
C2_WrittenExactlyOnce == pc = "done" => writes = 1

\* C2 amended: a terminated run has written the output path once, except
\* that a run failing before the try block never writes it, a run failing
\* after the success record was written (the echo) writes it twice, and a
\* failed write of the error record is no write.
C2_WritesPerRun ==
    pc = "done" =>
        writes = (IF failedAt \in PreTry THEN 0
                  ELSE (IF failedAt = "print" THEN 2 ELSE 1)
                       - (IF uncaught # "none" THEN 1 ELSE 0))

\* C2 witness: the echo failed after the success record was written and the
\* error record was written over it.
C2_Witness ==
    /\ pc = "done"
    /\ failedAt = "print"
    /\ writes = 2
    /\ output.status = "error"

\* C3 as stated: at termination the exit code is 0 exactly when the artifact
\* is a success record and 1 exactly when it is an error record, and an error
\* record holds no metrics fields.
C3_ExitCodeMatchesArtifact ==
    pc = "done" =>
        /\ exitCode = 0 <=> output.status = "success"
        /\ exitCode = 1 <=> output.status = "error"
        /\ output.status = "error" => DOMAIN output = ErrorFields

\* C3 amended: the same, for the runs in which no exception escaped main; a
\* success record in the artifact is the complete metrics record.
C3_ExitCodeMatchesArtifactWhenHandled ==
    (pc = "done" /\ uncaught = "none") =>
        /\ exitCode = 0 <=> output.status = "success"
        /\ exitCode = 1 <=> output.status = "error"
        /\ output.status = "error" => DOMAIN output = ErrorFields
        /\ output.status = "success" =>
            /\ DOMAIN output = SuccessFields
            /\ output = metrics

\* C3 witness: write_output raised, the run ended with the error record only.
C3_Witness ==
    /\ pc = "done"
    /\ failedAt = "write_output"
    /\ metrics.status = "success"
    /\ exitCode = 1
    /\ output.status = "error"

\* C4: an error record carries the configured version when load_config had
\* returned, and the fallback "v1" when load_config itself failed.
C4_ErrorRecordVersion ==
    output.status = "error" =>
        output.version = IF config.loaded THEN configFile.version ELSE "v1"

\* C4 witness: a failure after a config with version v2 was loaded.
C4_Witness ==
    /\ output.status = "error"
    /\ config.loaded
    /\ failedAt = "load_data"
    /\ output.version = "v2"

\* C5 as stated: a raised failure is caught once; the error entry with the
\* category of its kind is logged before the error record is written, the
\* record is written before the exit, and no failing run ends without both.
C5_LoggedThenWrittenThenExit ==
    /\ caught <= 1
    /\ pc = "except" => (caught = 0 /\ ErrorEntries = <<>>)
    /\ pc \in {"write_error_output", "sys_exit"} =>
        /\ caught = 1
        /\ ErrorEntries = <<Error(ExpectedCategory(exc.type), exc.msg)>>
        /\ exitCode = -1
    /\ pc = "write_error_output" => writes = (IF failedAt = "print" THEN 1 ELSE 0)
    /\ pc = "sys_exit" => output.status = "error"
    /\ (pc = "done" /\ exc.type # "none") =>
        /\ caught = 1
        /\ ErrorEntries = <<Error(ExpectedCategory(exc.type), exc.msg)>>
        /\ output.status = "error"
        /\ exitCode = 1

\* C5 amended: as C5, but a failing run ends with the error record only if the
\* write of the error record did not itself raise; when it raised, the run
\* still ends with the error entry and exit code 1.
C5_LoggedThenWriteAttemptedThenExit ==
    /\ caught <= 1
    /\ pc = "except" => (caught = 0 /\ ErrorEntries = <<>>)
    /\ pc \in {"write_error_output", "sys_exit"} =>
        /\ caught = 1
        /\ ErrorEntries = <<Error(ExpectedCategory(exc.type), exc.msg)>>
        /\ exitCode = -1
    /\ pc = "write_error_output" => writes = (IF failedAt = "print" THEN 1 ELSE 0)
    /\ pc = "sys_exit" => output.status = "error"
    /\ (pc = "done" /\ exc.type # "none") =>
        /\ caught = 1
        /\ ErrorEntries = <<Error(ExpectedCategory(exc.type), exc.msg)>>
        /\ uncaught = "none" => output.status = "error"
        /\ exitCode = 1

\* C5 witness: a missing close column, logged as a key error, written, exit 1.
C5_Witness ==
    /\ pc = "done"
    /\ exc.type = "KeyError"
    /\ failedAt = "load_data"
    /\ ErrorEntries = <<Error("Key error", exc.msg)>>
    /\ output.status = "error"
    /\ exitCode = 1

\* C6: the success record's value is count(signal = 1) / rows_processed
\* rounded to four decimals (within half a unit of the fourth decimal), the
\* denominator being the number of all rows; the scenario gives 0.4.
C6_SignalRateOverAllRows ==
    output.status = "success" =>
        /\ output.rows_processed = Len(inputFile.rows)
        /\ 2 * Abs(output.value * output.rows_processed - Scale * Ones(df.signal))
               <= output.rows_processed
        /\ (inputFile.rows = Scenario /\ config.window = 3) =>
            /\ df.signal = <<0, 0, 1, 0, 1>>
            /\ output.value = 4000

\* C6 witness: the scenario ran to a success record with value 0.4.
C6_Witness ==
    /\ output.status = "success"
    /\ inputFile.rows = Scenario
    /\ config.window = 3
    /\ output.value = 4000
    /\ output.rows_processed = 5

\* C7: from load_data on, df holds the input's closes in the input's order,
\* the added columns have one entry per row, and rows_processed is the number
\* of data rows of the input.
C7_RowsPreserved ==
    /\ (Len(ran) >= 2 /\ failedAt # "load_data") =>
        /\ df.close = inputFile.rows
        /\ Len(df.rolling_mean) \in {0, Len(inputFile.rows)}
        /\ Len(df.signal) \in {0, Len(inputFile.rows)}
    /\ metrics.status = "success" => metrics.rows_processed = Len(inputFile.rows)
    /\ output.status = "success" => output.rows_processed = Len(inputFile.rows)

\* C7 witness: a success with a window larger than the row count.
C7_Witness ==
    /\ output.status = "success"
    /\ config.window > Len(inputFile.rows)
    /\ Len(inputFile.rows) >= 2
    /\ output.rows_processed = Len(inputFile.rows)

\* C8 as stated: load_config fails with FileNotFoundError for a missing file,
\* with ValueError for an unparsable or an empty document, with KeyError for
\* missing keys, and the driver logs an unparsable config as a validation error.
C8_LoadConfigErrorKinds ==
    failedAt = "load_config" =>
        /\ exc.type = (CASE configFile.state = "absent" -> "FileNotFoundError"
                         [] configFile.state \in {"unparsable", "null"} -> "ValueError"
                         [] OTHER -> "KeyError")
        /\ (configFile.state \in {"unparsable", "null"} /\ caught = 1) =>
            ErrorEntries[1].category = "Validation error"

\* C9 as stated: an existing, parseable input whose header lacks close makes
\* load_data fail with KeyError, with or without data rows.
C9_NoCloseIsMissingField ==
    (failedAt = "load_data" /\ inputFile.state = "ok" /\ ~inputFile.hasClose) =>
        exc.type = "KeyError"

\* C9 amended: with at least one data row a header without close makes
\* load_data fail with KeyError; a header-only input fails with ValueError
\* (empty data) whether or not its header has close.
C9_NoCloseWithRowsIsMissingField ==
    (Len(ran) >= 2 /\ inputFile.state = "ok") =>
        IF Len(inputFile.rows) = 0
        THEN failedAt = "load_data" /\ exc.type = "ValueError"
        ELSE IF ~inputFile.hasClose
        THEN failedAt = "load_data" /\ exc.type = "KeyError"
        ELSE failedAt # "load_data"

\* C9 witness: data rows without a close column, reported as a key error.
C9_Witness ==
    /\ failedAt = "load_data"
    /\ inputFile.state = "ok"
    /\ ~inputFile.hasClose
    /\ Len(inputFile.rows) > 0
    /\ exc.type = "KeyError"
    /\ pc = "sys_exit"

\* C10: the stages run in the fixed order: the stages run so far are always
\* an initial part of the order, a stage is next only when exactly the stages
\* before it have run and none failed, a success record is written only after
\* all six ran once each, and after a failure the last stage run is the one
\* that failed (seeding belongs to load_config's stage, the echo to
\* write_output's).
C10_StagesInFixedOrder ==
    /\ Len(ran) <= Len(StageOrder)
    /\ ran = SubSeq(StageOrder, 1, Len(ran))
    /\ \A k \in 1 .. Len(StageOrder) :
        pc = StageOrder[k] => (Len(ran) = k - 1 /\ exc.type = "none")
    /\ output.status = "success" => ran = StageOrder
    /\ exc.type # "none" =>
        ran[Len(ran)] = (CASE failedAt = "seed" -> "load_config"
                           [] failedAt = "print" -> "write_output"
                           [] OTHER -> failedAt)

\* C10 witness: a run that reached the written success record.
C10_Witness ==
    /\ pc = "done"
    /\ exitCode = 0
    /\ ran = StageOrder

====
